---- MODULE Spec2Model ----
(***************************************************************************)
(* The two Streamlit summarizer scripts, info/app.py and info/taapp.py, as *)
(* one state machine.  A run of a script is modelled from the script load  *)
(* (taapp.py checks GROQ_API_KEY) through presses of the Summarize button; *)
(* each press runs the button handler step by step, every external call    *)
(* (transcript service, page fetch, LLM construction, LLM call) returning  *)
(* a nondeterministic result or raising.                                   *)
(*                                                                         *)
(* Text is a sequence of units; a unit is one token, the separator " "     *)
(* included.  A URL is a sequence of characters.                           *)
(***************************************************************************)
EXTENDS Integers, Sequences, FiniteSets, TLC

VARIABLES
    app,              \* which script runs: "app" (app.py) or "taapp" (taapp.py)
    api_key,          \* taapp.py: os.getenv("GROQ_API_KEY") is set
    pc,               \* position of the script / the button handler
    pressed,          \* the Summarize button has been pressed in this run
    url,              \* value of st.text_input
    video_id,         \* result of extract_video_id(url)
    transcript_list,  \* result of YouTubeTranscriptApi().fetch(video_id)
    response,         \* result of requests.get(url)
    text,             \* the extracted text (transcript_text in taapp.py)
    extracted,        \* which branch assigned text: "none", "video", "page"
    llm,              \* ChatGroq(...) has been constructed
    docs,             \* taapp.py: the list [doc] handed to chain.run
    partials,         \* taapp.py: outputs of the map step
    summary,          \* the value of summary
    shown,            \* what the run has rendered: st.error / st.subheader / st.write
    calls,            \* external calls issued since the press, in order
    failedStage       \* stage whose call raised in this request, or "none"

vars == <<app, api_key, pc, pressed, url, video_id, transcript_list, response,
          text, extracted, llm, docs, partials, summary, shown, calls, failedStage>>

(***************************************************************************)
(* Bounds of the model.                                                    *)
(***************************************************************************)
MaxExtra == 1      \* id-character runs of IdLen-1 .. IdLen+MaxExtra characters
MaxSegs  == 3      \* transcript segments
MaxElems == 2      \* top-level nodes of a page
MaxStrs  == 1      \* strings inside one <main> element
MaxUnits == 2      \* the spec's max_units (the scripts have no such setting)

(***************************************************************************)
(* extract_video_id: re.search(r"(?:v=|youtu\.be/)([a-zA-Z0-9_-]{11})")    *)
(***************************************************************************)
IdLen == 11

None == <<>>

\* response before requests.get has returned
NoResponse == [status_code |-> 0, content |-> <<>>]

IdChars == {"a", "b", "e", "h", "o", "t", "u", "v", "x", "y", "_", "-", "1"}

VEq == <<"v", "=">>

YoutuBe == <<"y", "o", "u", "t", "u", ".", "b", "e", "/">>

LitAt(u, i, lit) ==
    /\ i + Len(lit) - 1 <= Len(u)
    /\ \A k \in 1..Len(lit) : u[i + k - 1] = lit[k]

IdAt(u, j) ==
    /\ j + IdLen - 1 <= Len(u)
    /\ \A k \in 0..(IdLen - 1) : u[j + k] \in IdChars

\* Start of group 1 when the pattern matches at position i, else 0.  The
\* alternation tries v= first, then youtu\.be/ .
GroupStartAt(u, i) ==
    IF LitAt(u, i, VEq) /\ IdAt(u, i + Len(VEq)) THEN i + Len(VEq)
    ELSE IF LitAt(u, i, YoutuBe) /\ IdAt(u, i + Len(YoutuBe)) THEN i + Len(YoutuBe)
    ELSE 0

Min(S) == CHOOSE x \in S : \A y \in S : x <= y

\* A mutant: the class repeated {10} instead of {11}.
extract_video_id_short(u) ==
    LET hits == {i \in 1..Len(u) :
                    \E lit \in {VEq, YoutuBe} :
                        /\ LitAt(u, i, lit)
                        /\ i + Len(lit) + IdLen - 2 <= Len(u)
                        /\ \A k \in 0..(IdLen - 2) : u[i + Len(lit) + k] \in IdChars}
    IN  IF hits = {} THEN None
        ELSE LET i == Min(hits)
                 j == IF LitAt(u, i, VEq) THEN i + Len(VEq) ELSE i + Len(YoutuBe)
             IN  SubSeq(u, j, j + IdLen - 2)

extract_video_id(u) ==
    LET hits == {i \in 1..Len(u) : GroupStartAt(u, i) # 0}
    IN  IF hits = {} THEN None
        ELSE LET j == GroupStartAt(u, Min(hits))
             IN  SubSeq(u, j, j + IdLen - 1)

(***************************************************************************)
(* " ".join(...)                                                           *)
(***************************************************************************)
RECURSIVE JoinSpace(_)
JoinSpace(ss) ==
    IF Len(ss) = 0 THEN <<>>
    ELSE IF Len(ss) = 1 THEN <<ss[1]>>
    ELSE <<ss[1], " ">> \o JoinSpace(Tail(ss))

(***************************************************************************)
(* The inputs the environment can supply.                                  *)
(***************************************************************************)
Run(n) == [k \in 1..n |-> "a"]

Heads == {<<"h", "/">>, <<"h", "?", "v", "=", "a", "&">>}

Markers == {<<>>, VEq, YoutuBe}

\* youtu.be with another character in place of the dot
NoDot == <<"y", "o", "u", "t", "u", "x", "b", "e", "/">>

URLs == {<<>>, <<"h", "/">> \o NoDot \o Run(IdLen)} \cup
        {h \o m \o Run(n) : h \in Heads, m \in Markers,
                            n \in (IdLen - 1)..(IdLen + MaxExtra)}

SegTexts == {"Hello", "world", "today"}

Segments == [text : SegTexts]

Transcripts == UNION {[1..n -> Segments] : n \in 0..MaxSegs}

\* A text node is a raw string; " " is whitespace only, " t " is padded text.
RawStrings == {" ", " t "}

MainElems == {[tag |-> "main", strings |-> ss] :
                 ss \in UNION {[1..n -> RawStrings] : n \in 0..MaxStrs}}

TextElems == {[tag |-> "text", strings |-> <<s>>] : s \in RawStrings}

Elems == MainElems \cup TextElems

Pages == UNION {[1..n -> Elems] : n \in 0..MaxElems}

Statuses == {200, 404}

Responses == [status_code : Statuses, content : Pages]

LlmOutputs == {<<"s">>, <<"s", " ", "s">>}

Exceptions == {"e1", "e2"}

(***************************************************************************)
(* BeautifulSoup(response.content, "html.parser"), soup.find('main'),      *)
(* get_text(separator=' ', strip=True) and " ".join(soup.stripped_strings) *)
(***************************************************************************)
Strip(s) == IF s = " " THEN "" ELSE "t"

RECURSIVE Flatten(_)
Flatten(elems) ==
    IF Len(elems) = 0 THEN <<>>
    ELSE elems[1].strings \o Flatten(Tail(elems))

StrippedStrings(raw) ==
    LET stripped == [i \in 1..Len(raw) |-> Strip(raw[i])]
    IN  SelectSeq(stripped, LAMBDA s : s # "")

\* soup.find('main'): index of the first <main> element, 0 when there is none
FindMain(soup) ==
    LET mains == {i \in 1..Len(soup) : soup[i].tag = "main"}
    IN  IF mains = {} THEN 0 ELSE Min(mains)

\* A mutant: the fallback taken always.
PageTextWholePage(soup) ==
    JoinSpace(StrippedStrings(Flatten(soup)))

PageText(soup) ==
    LET main_content == FindMain(soup)
    IN  IF main_content # 0
        THEN JoinSpace(StrippedStrings(soup[main_content].strings))
        ELSE JoinSpace(StrippedStrings(Flatten(soup)))

(***************************************************************************)
(* Messages and rendered widgets.                                          *)
(***************************************************************************)
NoKeyMessage == <<"GROQ_API_KEY not found! Please set it in your .env file.">>

EmptyUrlMessage == <<"Please enter a URL">>

FailedPrefix == "Failed to summarize content: "

Error(msg) == [widget |-> "error", body |-> msg]

Subheader(a, kind) ==
    [widget |-> "subheader",
     body |-> IF a = "app" THEN <<"Summary:">>
              ELSE IF kind = "video" THEN <<"YouTube Summary:">>
              ELSE <<"Website Summary:">>]

Write(s) == [widget |-> "write", body |-> s]

Call(svc, prompt, arg, outcome) ==
    [svc |-> svc, prompt |-> prompt, arg |-> arg, outcome |-> outcome]

\* Which chain summarizes the text: taapp.py runs the map_reduce chain on a
\* video and an LLMChain on a page; app.py always runs an LLMChain.
\* A mutant: one LLMChain whatever the source.
ChainTypeAlwaysDirect(a, vid) ==
    "direct"

ChainType(a, vid) ==
    IF a = "taapp" /\ vid # None THEN "map_reduce" ELSE "direct"

DirectPrompt(a) == IF a = "taapp" THEN "website" ELSE "content"

(***************************************************************************)
(* Init: the script starts; nothing has been rendered or called.           *)
(***************************************************************************)
Init ==
    /\ app \in {"app", "taapp"}
    /\ api_key \in BOOLEAN
    /\ pc = "load"
    /\ pressed = FALSE
    /\ url = <<>>
    /\ video_id = None
    /\ transcript_list = <<>>
    /\ response = NoResponse
    /\ text = <<>>
    /\ extracted = "none"
    /\ llm = FALSE
    /\ docs = <<>>
    /\ partials = <<>>
    /\ summary = <<>>
    /\ shown = <<>>
    /\ calls = <<>>
    /\ failedStage = "none"

request == <<video_id, transcript_list, response, text, extracted, llm, docs,
             partials, summary>>

\* except Exception as e: st.error(f"Failed to summarize content: {e}")
\* A mutant: the exception is swallowed (except Exception: pass).
RaiseSilently(stage, e) ==
    /\ failedStage' = stage
    /\ shown' = shown
    /\ pc' = "idle"

\* A mutant: the failed step is tried again instead of ending the request.
RaiseAndRetry(stage, e) ==
    /\ failedStage' = stage
    /\ shown' = shown
    /\ pc' = pc

Raise(stage, e) ==
    /\ failedStage' = stage
    /\ shown' = Append(shown, Error(<<FailedPrefix, e>>))
    /\ pc' = "idle"

\* st.subheader(...); st.write(summary)
Display(s) ==
    /\ summary' = s
    /\ shown' = shown \o <<Subheader(app, extracted), Write(s)>>
    /\ pc' = "idle"

(***************************************************************************)
(* Script load: taapp.py lines 21-26.                                      *)
(***************************************************************************)
\* A mutant: st.stop() left out after the error.
LoadScriptNoStop ==
    /\ pc = "load"
    /\ IF app = "taapp" /\ ~api_key
       THEN shown' = <<Error(NoKeyMessage)>>
       ELSE shown' = shown
    /\ pc' = "idle"
    /\ UNCHANGED <<app, api_key, pressed, url, request, calls, failedStage>>

LoadScript ==
    /\ pc = "load"
    /\ IF app = "taapp" /\ ~api_key
       THEN /\ shown' = <<Error(NoKeyMessage)>>
            /\ pc' = "stopped"
       ELSE /\ shown' = shown
            /\ pc' = "idle"
    /\ UNCHANGED <<app, api_key, pressed, url, request, calls, failedStage>>

(***************************************************************************)
(* The Summarize button: the press reruns the script with the url typed.   *)
(***************************************************************************)
\* A mutant: the empty-URL check left out.
SummarizeUnchecked(u) ==
    /\ pc = "idle"
    /\ pressed' = TRUE
    /\ url' = u
    /\ video_id' = None
    /\ transcript_list' = <<>>
    /\ response' = NoResponse
    /\ text' = <<>>
    /\ extracted' = "none"
    /\ llm' = FALSE
    /\ docs' = <<>>
    /\ partials' = <<>>
    /\ summary' = <<>>
    /\ calls' = <<>>
    /\ failedStage' = "none"
    /\ shown' = <<>>
    /\ pc' = IF app = "taapp" THEN "construct" ELSE "classify"
    /\ UNCHANGED <<app, api_key>>

Summarize(u) ==
    /\ pc = "idle"
    /\ pressed' = TRUE
    /\ url' = u
    /\ video_id' = None
    /\ transcript_list' = <<>>
    /\ response' = NoResponse
    /\ text' = <<>>
    /\ extracted' = "none"
    /\ llm' = FALSE
    /\ docs' = <<>>
    /\ partials' = <<>>
    /\ summary' = <<>>
    /\ calls' = <<>>
    /\ failedStage' = "none"
    /\ IF u = <<>>
       THEN /\ shown' = <<Error(EmptyUrlMessage)>>
            /\ pc' = "idle"
       ELSE /\ shown' = <<>>
            /\ pc' = IF app = "taapp" THEN "construct" ELSE "classify"
    /\ UNCHANGED <<app, api_key>>

\* llm = ChatGroq(...): first in taapp.py's try, after extraction in app.py
ConstructLLM ==
    /\ pc = "construct"
    /\ \/ /\ llm' = TRUE
          /\ pc' = IF app = "taapp" THEN "classify" ELSE "run"
          /\ UNCHANGED <<shown, failedStage>>
       \/ /\ \E e \in Exceptions : Raise("LLM construction", e)
          /\ UNCHANGED llm
    /\ UNCHANGED <<app, api_key, pressed, url, video_id, transcript_list, response,
                   text, extracted, docs, partials, summary, calls>>

\* video_id = extract_video_id(url); if video_id: ... else: ...
ExtractVideoId ==
    /\ pc = "classify"
    /\ video_id' = extract_video_id(url)
    /\ pc' = IF video_id' # None THEN "transcript" ELSE "page"
    /\ UNCHANGED <<app, api_key, pressed, url, transcript_list, response, text,
                   extracted, llm, docs, partials, summary, shown, calls, failedStage>>

\* Where the handler goes once text is assigned.
AfterExtraction(a, vid) ==
    IF a = "app" THEN "construct"
    ELSE IF ChainType(a, vid) = "map_reduce" THEN "map" ELSE "run"

\* transcript_list = YouTubeTranscriptApi().fetch(video_id); " ".join(t.text ...)
FetchTranscript ==
    /\ pc = "transcript"
    /\ \/ \E tl \in Transcripts :
            /\ calls' = Append(calls, Call("transcript", "", video_id, "ok"))
            /\ transcript_list' = tl
            /\ text' = JoinSpace([i \in 1..Len(tl) |-> tl[i].text])
            /\ extracted' = "video"
            /\ docs' = IF AfterExtraction(app, video_id) = "map" THEN <<text'>> ELSE docs
            /\ pc' = AfterExtraction(app, video_id)
            /\ UNCHANGED <<shown, failedStage>>
       \/ /\ calls' = Append(calls, Call("transcript", "", video_id, "raised"))
          /\ \E e \in Exceptions : Raise("transcript fetch", e)
          /\ UNCHANGED <<transcript_list, text, extracted, docs>>
    /\ UNCHANGED <<app, api_key, pressed, url, video_id, response, llm, partials,
                   summary>>

\* response = requests.get(url): any status is a response, not an exception
FetchPage ==
    /\ pc = "page"
    /\ \/ \E r \in Responses :
            /\ calls' = Append(calls, Call("page", "", url, "ok"))
            /\ response' = r
            /\ pc' = "parse"
            /\ UNCHANGED <<shown, failedStage>>
       \/ /\ calls' = Append(calls, Call("page", "", url, "raised"))
          /\ \E e \in Exceptions : Raise("page fetch", e)
          /\ UNCHANGED response
    /\ UNCHANGED <<app, api_key, pressed, url, video_id, transcript_list, text,
                   extracted, llm, docs, partials, summary>>

\* soup = BeautifulSoup(response.content, "html.parser"); main / fallback text
ParsePage ==
    /\ pc = "parse"
    /\ \/ /\ text' = PageText(response.content)
          /\ extracted' = "page"
          /\ pc' = AfterExtraction(app, video_id)
          /\ UNCHANGED <<shown, failedStage>>
       \/ /\ \E e \in Exceptions : Raise("markup parse", e)
          /\ UNCHANGED <<text, extracted>>
    /\ UNCHANGED <<app, api_key, pressed, url, video_id, transcript_list, response,
                   llm, docs, partials, summary, calls>>

\* chain = LLMChain(llm=llm, prompt=prompt); summary = chain.run(text); display
RunLLMChain ==
    /\ pc = "run"
    /\ \/ \E out \in LlmOutputs :
            /\ calls' = Append(calls, Call("llm", DirectPrompt(app), text, "ok"))
            /\ Display(out)
            /\ UNCHANGED failedStage
       \/ /\ calls' = Append(calls, Call("llm", DirectPrompt(app), text, "raised"))
          /\ \E e \in Exceptions : Raise("LLM call", e)
          /\ UNCHANGED summary
    /\ UNCHANGED <<app, api_key, pressed, url, video_id, transcript_list, response,
                   text, extracted, llm, docs, partials>>

\* chain.run([doc]), map step: the map prompt on each document of the list
MapStep ==
    /\ pc = "map"
    /\ LET i == Len(partials) + 1
       IN  \/ \E out \in LlmOutputs :
                /\ calls' = Append(calls, Call("llm", "map", docs[i], "ok"))
                /\ partials' = Append(partials, out)
                /\ pc' = IF i = Len(docs) THEN "reduce" ELSE "map"
                /\ UNCHANGED <<shown, failedStage>>
           \/ /\ calls' = Append(calls, Call("llm", "map", docs[i], "raised"))
              /\ \E e \in Exceptions : Raise("LLM call", e)
              /\ UNCHANGED partials
    /\ UNCHANGED <<app, api_key, pressed, url, video_id, transcript_list, response,
                   text, extracted, llm, docs, summary>>

RECURSIVE JoinDocs(_)
JoinDocs(ps) ==
    IF Len(ps) = 0 THEN <<>>
    ELSE IF Len(ps) = 1 THEN ps[1]
    ELSE ps[1] \o <<"\n\n">> \o JoinDocs(Tail(ps))

\* chain.run([doc]), reduce step: the combine prompt on the map outputs; display
ReduceStep ==
    /\ pc = "reduce"
    /\ \/ \E out \in LlmOutputs :
            /\ calls' = Append(calls, Call("llm", "combine", JoinDocs(partials), "ok"))
            /\ Display(out)
            /\ UNCHANGED failedStage
       \/ /\ calls' = Append(calls, Call("llm", "combine", JoinDocs(partials), "raised"))
          /\ \E e \in Exceptions : Raise("LLM call", e)
          /\ UNCHANGED summary
    /\ UNCHANGED <<app, api_key, pressed, url, video_id, transcript_list, response,
                   text, extracted, llm, docs, partials>>

Next ==
    \/ LoadScript
    \/ \E u \in URLs : Summarize(u)
    \/ ConstructLLM
    \/ ExtractVideoId
    \/ FetchTranscript
    \/ FetchPage
    \/ ParsePage
    \/ RunLLMChain
    \/ MapStep
    \/ ReduceStep

Spec == Init /\ [][Next]_vars

(***************************************************************************)
(* Vocabulary of the claims.                                               *)
(***************************************************************************)
LlmCalls == SelectSeq(calls, LAMBDA c : c.svc = "llm")

CallsTo(svc) == SelectSeq(calls, LAMBDA c : c.svc = svc)

Prompts == [i \in 1..Len(LlmCalls) |-> LlmCalls[i].prompt]

ErrorsShown == SelectSeq(shown, LAMBDA w : w.widget = "error")

SummariesShown == SelectSeq(shown, LAMBDA w : w.widget = "write")

SummaryShown == Len(SummariesShown) > 0

RequestOver == pressed /\ pc = "idle"

Success(code) == code \in 200..299

C2_NoSummaryOfErrorResponse ==
    /\ (failedStage = "page fetch" => LlmCalls = <<>> /\ ~SummaryShown)
    /\ (response # NoResponse /\ ~Success(response.status_code) =>
            /\ LlmCalls = <<>>
            /\ ~SummaryShown
            /\ extracted = "none")

(***************************************************************************)
(* C3.  Every text handed to a map call has at most max_units units, and a *)
(* transcript longer than max_units reaches the reduce step as more than   *)
(* one document (one map call per chunk).                                  *)
(***************************************************************************)
C3_MapInputsBounded ==
    /\ \A i \in 1..Len(LlmCalls) :
            LlmCalls[i].prompt = "map" => Len(LlmCalls[i].arg) <= MaxUnits
    /\ (pc = "reduce" /\ Len(text) > MaxUnits =>
            Len(docs) > 1 /\ Len(partials) = Len(docs))

(***************************************************************************)
(* C4.  Original claim: a failure at any stage shows exactly one error     *)
(* message and that message names the stage that failed.  The handler's    *)
(* own words in the message are "Failed to summarize content".             *)
(***************************************************************************)
C4_StageNamed(msg) ==
    IF msg[1] = FailedPrefix THEN "LLM call" ELSE "input"

C4_MessageNamesStage ==
    failedStage # "none" =>
        /\ Len(ErrorsShown) = 1
        /\ C4_StageNamed(ErrorsShown[1].body) = failedStage

(***************************************************************************)
(* C4, amended.  An exception raised at any stage of the request ends the  *)
(* request with exactly one error message and no summary; the message is   *)
(* the fixed text "Failed to summarize content: " followed by the          *)
(* exception's own text, the same at every stage, so a stage (transcript   *)
(* unavailable, page fetch, ...) is told apart only by the exception text. *)
(***************************************************************************)
C4_OneMessagePerFailure ==
    /\ (failedStage # "none" =>
            /\ pc = "idle"
            /\ \E e \in Exceptions : shown = <<Error(<<FailedPrefix, e>>)>>)
    /\ \A i \in 1..Len(calls) : calls[i].outcome = "raised" => failedStage # "none"

C4_Witness ==
    /\ failedStage = "transcript fetch"
    /\ Len(ErrorsShown) = 1
    /\ ErrorsShown[1].body[1] = FailedPrefix

(***************************************************************************)
(* C6.  A URL is recognized as a video exactly when it contains v= or      *)
(* youtu.be/ followed by 11 characters of [A-Za-z0-9_-]; for a recognized  *)
(* URL the content is the segments' text joined by single spaces in order  *)
(* and no page is fetched; any other URL never reaches the transcript      *)
(* service and is handled as a page.                                       *)
(***************************************************************************)
C6_Recognized(u) ==
    \E lit \in {VEq, YoutuBe} : \E i \in 1..Len(u) :
        /\ i + Len(lit) + IdLen - 1 <= Len(u)
        /\ SubSeq(u, i, i + Len(lit) - 1) = lit
        /\ \A k \in (i + Len(lit))..(i + Len(lit) + IdLen - 1) : u[k] \in IdChars

C6_SpaceJoined(t, tl) ==
    /\ Len(t) = IF Len(tl) = 0 THEN 0 ELSE 2 * Len(tl) - 1
    /\ \A k \in 1..Len(t) :
            t[k] = IF k % 2 = 1 THEN tl[(k + 1) \div 2].text ELSE " "

C6_VideoContent ==
    /\ (pc = "transcript" \/ CallsTo("transcript") # <<>> \/ extracted = "video"
            => C6_Recognized(url))
    /\ (pc \in {"page", "parse"} \/ CallsTo("page") # <<>> \/ extracted = "page"
            => ~C6_Recognized(url))
    /\ (extracted = "video" =>
            /\ C6_SpaceJoined(text, transcript_list)
            /\ CallsTo("page") = <<>>
            /\ Len(CallsTo("transcript")) = 1
            /\ Len(video_id) = IdLen)

C6_Witness ==
    /\ extracted = "video"
    /\ [i \in 1..Len(transcript_list) |-> transcript_list[i].text]
            = <<"Hello", "world", "today">>
    /\ text = <<"Hello", " ", "world", " ", "today">>

(***************************************************************************)
(* C7.  For a page, the summarized text is the visible text of the first   *)
(* <main> element when the page has one, and of the whole page only when   *)
(* it has none; the pieces are separated by single spaces, and nothing     *)
(* outside <main> is included when <main> exists.                          *)
(***************************************************************************)
C7_Pieces(t) == SelectSeq(t, LAMBDA x : x # " ")

C7_SingleSpaced(t) ==
    /\ Len(t) = 0 \/ Len(t) % 2 = 1
    /\ \A k \in 1..Len(t) : (t[k] = " ") <=> (k % 2 = 0)

C8_NoRetries ==
    /\ Len(CallsTo("transcript")) <= 1
    /\ Len(CallsTo("page")) <= 1
    /\ \A i, j \in 1..Len(calls) :
            (i < j) =>
                <<calls[i].svc, calls[i].prompt, calls[i].arg>>
                    # <<calls[j].svc, calls[j].prompt, calls[j].arg>>
    /\ \A i \in 1..Len(calls) :
            calls[i].outcome = "raised" => i = Len(calls) /\ pc = "idle"
    /\ (failedStage # "none" => pc = "idle" /\ Len(ErrorsShown) = 1)

\* The map call succeeded and the combine call raised: the request is over.
C8_Witness ==
    /\ Len(calls) = 3
    /\ calls[2].prompt = "map"
    /\ calls[2].outcome = "ok"
    /\ calls[3].prompt = "combine"
    /\ calls[3].outcome = "raised"
    /\ pc = "idle"

(***************************************************************************)
(* C9.  A press with an empty URL shows the invalid-input message and      *)
(* nothing else: no transcript fetch, no page fetch, no LLM construction,  *)
(* no LLM call, no summary.                                                *)
(***************************************************************************)
C9_EmptyUrlRejected ==
    pressed /\ url = <<>> =>
        /\ pc = "idle"
        /\ shown = <<Error(EmptyUrlMessage)>>
        /\ calls = <<>>
        /\ ~llm
        /\ extracted = "none"
        /\ failedStage = "none"

C9_Witness ==
    /\ pressed
    /\ url = <<>>
    /\ shown = <<Error(EmptyUrlMessage)>>

(***************************************************************************)
(* C10.  Every press ends with an error message or a summary, never both   *)
(* and never neither; a summary is shown only after the extraction         *)
(* succeeded and the last LLM call returned; and taapp.py without          *)
(* GROQ_API_KEY stops before the button exists, so nothing is ever called. *)
(***************************************************************************)
C10_OneOutcome ==
    /\ (RequestOver =>
            \/ Len(ErrorsShown) = 1 /\ ~SummaryShown
            \/ Len(ErrorsShown) = 0 /\ Len(SummariesShown) = 1)
    /\ (pressed => ~(Len(ErrorsShown) > 0 /\ SummaryShown))
    /\ (SummaryShown =>
            /\ extracted # "none"
            /\ llm
            /\ calls # <<>>
            /\ calls[Len(calls)].svc = "llm"
            /\ calls[Len(calls)].outcome = "ok"
            /\ SummariesShown[1].body = summary)
    /\ (app = "taapp" /\ ~api_key =>
            /\ pc \in {"load", "stopped"}
            /\ ~pressed
            /\ calls = <<>>
            /\ ~llm)

C10_Witness ==
    /\ app = "taapp"
    /\ api_key
    /\ RequestOver
    /\ extracted = "page"
    /\ Len(SummariesShown) = 1
    /\ Len(ErrorsShown) = 0

====
